---- MODULE Spec2Model ----
(***************************************************************************)
(* A model of the Big Finish scraper: the sqlite store (Database), the     *)
(* link classifier and record extractor (Scraper), the crawl loop          *)
(* (Scraper.run), the live search (Search.search with the /search/         *)
(* handler of web-api.py) and the local ranking of                         *)
(* outdated_scraper-api.py.                                                *)
(*                                                                         *)
(* Text is modelled as a sequence of tokens.  A token is a piece of text   *)
(* that no test of the program splits: a word, a path fragment, a single   *)
(* digit, a blank.  "x in s" of Python is Contains(s, x), s.startswith(x)  *)
(* is StartsWith(s, x), s + t is s \o t.                                   *)
(***************************************************************************)
EXTENDS Integers, Sequences, FiniteSets, TLC

VARIABLES
    db_urls,       \* table urls: a set of rows [url, visited]
    db_content,    \* table content: a set of rows [url, title, series, ...]
    all_links,     \* Scraper.all_links of the running crawler: URL -> visited
    pc,            \* where Scraper.run() stands
    batch,         \* unvisited_links still to be iterated by the for loop
    link,          \* the loop variable of run()
    content,       \* the html get_html returned for link
    fetches,       \* per run: how often get_html was called for each URL
    fetch_failed,  \* per run: get_html returned None at least once
    spc,           \* where the /search/ request of web-api.py stands
    pending,       \* the suggest entries Search.search still has to resolve
    datas,         \* Search.search's list datas
    response,      \* what the /search/ handler returned
    input,         \* the calls made so far, or the arguments of the call
    output         \* the result of the call

vars ==
    <<db_urls, db_content, all_links, pc, batch, link, content, fetches,
      fetch_failed, spc, pending, datas, response, input, output>>

crawl_vars ==
    <<all_links, pc, batch, link, content, fetches, fetch_failed>>

search_vars ==
    <<spc, pending, datas, response>>

fun_vars ==
    <<input, output>>

(***************************************************************************)
(* Bounds of the model.                                                    *)
(***************************************************************************)
MaxLinks == 2      \* hyperlinks on one fetched page
MaxFetch == 2      \* the fetch counter saturates here ("twice or more")
MaxSuggest == 2    \* entries of one suggest response
MaxRows == 7        \* rows of the content table in one local search
MaxHrefs == 3      \* links of the page of one get_all_links call on its own
MaxOps == 3        \* calls of the store's operations in one history

(***************************************************************************)
(* Python values.                                                          *)
(***************************************************************************)
\* None, as a text no page holds.
None ==
    <<"<None>">>

\* bool(v) for v a text or None: None and "" are falsy.
Truthy(v) ==
    v # None /\ v # <<>>

\* str(v) inside an f-string: None prints as "None".
PyStr(v) ==
    IF v = None THEN <<"None">> ELSE v

IsSpace(t) ==
    t \in {" ", "\n"}

Digits ==
    {"0", "1", "2", "3", "4", "5", "6", "7", "8", "9"}

StartsWith(s, p) ==
    Len(p) <= Len(s) /\ SubSeq(s, 1, Len(p)) = p

\* s.find(p) + 1: the first place p occurs in s, 0 when it does not.
Find(s, p) ==
    LET hits == {i \in 1..(Len(s) - Len(p) + 1) : SubSeq(s, i, i + Len(p) - 1) = p}
    IN  IF hits = {} THEN 0 ELSE CHOOSE i \in hits : \A j \in hits : i <= j

Contains(s, p) ==
    Find(s, p) # 0

\* s.split(p)[0]
BeforeFirst(s, p) ==
    IF Contains(s, p) THEN SubSeq(s, 1, Find(s, p) - 1) ELSE s

\* p.join(s.split(p)[1:]): what follows the first p in s (p occurs in s).
AfterFirst(s, p) ==
    SubSeq(s, Find(s, p) + Len(p), Len(s))

\* s.split(p)[1]: raises IndexError when p does not occur in s.
SplitSecond(s, p) ==
    BeforeFirst(AfterFirst(s, p), p)

RECURSIVE LStrip(_)
LStrip(s) ==
    IF s # <<>> /\ IsSpace(Head(s)) THEN LStrip(Tail(s)) ELSE s

RECURSIVE RStrip(_)
RStrip(s) ==
    IF s # <<>> /\ IsSpace(s[Len(s)]) THEN RStrip(SubSeq(s, 1, Len(s) - 1)) ELSE s

\* s.strip()
Strip(s) ==
    RStrip(LStrip(s))

\* s.lower(), token by token.
LowerTok(t) ==
    CASE t = "Released" -> "released"
      [] t = "RELEASED" -> "released"
      [] t = "March" -> "march"
      [] t = "MARCH" -> "march"
      [] t = "December" -> "december"
      [] t = "Marchy" -> "marchy"
      [] t = "May" -> "may"
      [] t = "S" -> "s"
      [] t = "T" -> "t"
      [] OTHER -> t

Lower(s) ==
    [i \in 1..Len(s) |-> LowerTok(s[i])]

\* ', '.join(names)
RECURSIVE JoinNames(_)
JoinNames(names) ==
    IF names = <<>> THEN <<>>
    ELSE IF Len(names) = 1 THEN Head(names)
    ELSE Head(names) \o <<", ">> \o JoinNames(Tail(names))

\* s.replace(old, new)
RECURSIVE Replace(_, _, _)
Replace(s, old, new) ==
    IF ~Contains(s, old) THEN s
    ELSE BeforeFirst(s, old) \o new \o Replace(AfterFirst(s, old), old, new)

(***************************************************************************)
(* Database: the tables urls and content.  The timestamps (discovered_at,  *)
(* visited_at, created_at) are left out: nothing reads them.               *)
(***************************************************************************)
UrlRows(db, url) ==
    {r \in db : r.url = url}

\* Database.add_url with a plain INSERT OR REPLACE: the row's flag is reset.
add_url_replace(db, url) ==
    (db \ UrlRows(db, url)) \cup {[url |-> url, visited |-> FALSE]}

\* Database.add_url: INSERT OR IGNORE INTO urls (url, discovered_at).
add_url(db, url) ==
    IF UrlRows(db, url) # {} THEN db
    ELSE db \cup {[url |-> url, visited |-> FALSE]}

\* Database.mark_url_visited that only updates: no row, no effect, flag kept.
mark_url_visited_noop(db, url) ==
    db

\* Database.mark_url_visited: INSERT OR REPLACE INTO urls (url, visited, visited_at).
mark_url_visited(db, url) ==
    (db \ UrlRows(db, url)) \cup {[url |-> url, visited |-> TRUE]}

\* The urls table holds url as visited.
VisitedInDb(url) ==
    [url |-> url, visited |-> TRUE] \in db_urls

\* Database.get_all_urls: a dict url -> bool(visited).
get_all_urls(db) ==
    [u \in {r.url : r \in db} |-> (CHOOSE r \in db : r.url = u).visited]

ContentRows(db, url) ==
    {r \in db : r.url = url}

\* Database.save_content that keeps the stored value of a field the new
\* record has absent (a merge instead of a replace).
save_content_merge(db, data) ==
    LET old == ContentRows(db, data.url)
        merged ==
            IF old = {} THEN data
            ELSE LET o == CHOOSE r \in old : TRUE
                 IN  [f \in DOMAIN data |-> IF data[f] = None THEN o[f] ELSE data[f]]
    IN  (db \ old) \cup {merged}

\* Database.save_content: INSERT OR REPLACE INTO content (url, title, ...).
save_content(db, data) ==
    (db \ ContentRows(db, data.url)) \cup {data}

\* The columns of the content table besides url (created_at left out).
Fields ==
    {"title", "series", "release_date", "about", "background", "production",
     "duration", "isbn", "written_by", "narrated_by", "cover_url", "series_tag"}

\* parse_data's initial dict: every field None.
EmptyData(url) ==
    [f \in Fields \cup {"url"} |-> IF f = "url" THEN url ELSE None]

\* None where a dict is expected (a dict always has a url).
NoneData ==
    EmptyData(None)

\* Database.return_data_for_url: the row as a dict; None when there is no row
\* or when sqlite raised (io_ok = FALSE: the except branch).
return_data_for_url(db, url, io_ok) ==
    IF io_ok /\ ContentRows(db, url) # {}
    THEN CHOOSE r \in ContentRows(db, url) : TRUE
    ELSE NoneData

(***************************************************************************)
(* URLs and hyperlinks.                                                    *)
(***************************************************************************)
\* Scraper.base_url, Search.base_url: 'https://www.bigfinish.com'
base_url ==
    <<"http", "s://www.", "bigfinish.com">>

\* "/releases/v/" as tokens.
DetailPart ==
    <<"/releases/", "v/">>

IsDetail(url) ==
    Contains(url, DetailPart)

\* The hrefs a page of the model can hold.
HDetail1 == <<"/releases/", "v/", "1">>
HDetail1Abs == base_url \o HDetail1
HDetail2 == <<"/releases/", "v/", "2">>
HRange == <<"/ranges/", "x">>
HHub == <<"/hubs/", "y">>
HFacebook == <<"http", "s://www.", "facebook.com", "/releases/", "z">>
HBasket == <<"/releases/", "v/", "3", "?next=", "/basket/">>
HPages == <<"/pages/v/", "about", "/ranges/", "x">>
HOther == <<"http", "://other.org", "/releases/", "v/", "9">>
HAbout == <<"/about">>
HEmpty == <<>>
HDetail123 == <<"/releases/", "v/", "123">>
HFacebookX == <<"http", "s://", "facebook.com", "/x">>
HBasketOnly == <<"/basket/">>
HTwitter == <<"http", "s://", "twitter", ".com", "/releases/", "z">>
HYoutube == <<"/ranges/", "x", "?v=", "youtube">>

Hrefs ==
    {HDetail1, HDetail1Abs, HDetail2, HRange, HHub, HFacebook, HBasket, HPages,
     HOther, HAbout, HEmpty, None,
     HDetail123, HFacebookX, HBasketOnly, HTwitter, HYoutube}

\* The hrefs of the pages the crawl is run on, in the order in which a
\* page lists them.
CrawlHrefSeq ==
    <<HDetail1, HDetail2, HRange, HHub>>

CrawlHrefs ==
    {CrawlHrefSeq[i] : i \in 1..Len(CrawlHrefSeq)}

\* allowed_parts of get_all_links with '/hubs/' in both modes.
AllowedPartsAll(only_releases) ==
    {<<"/releases/">>, <<"/ranges/">>, <<"/hubs/">>}

\* allowed_parts of get_all_links
AllowedParts(only_releases) ==
    IF only_releases THEN {<<"/releases/">>, <<"/ranges/">>}
    ELSE {<<"/releases/">>, <<"/ranges/">>, <<"/hubs/">>}

\* disallowed_parts of get_all_links
DisallowedParts ==
    {<<"facebook.com">>, <<"twitter">>, <<"youtube">>, <<"/basket/">>, <<"/pages/v/">>}

\* must_contain of get_all_links
MustContain ==
    {<<"bigfinish.com">>}

\* full_url of get_all_links
FullUrl(href) ==
    IF StartsWith(href, <<"http">>) THEN href ELSE base_url \o href

\* The condition of get_all_links under which a link is kept.
KeepHref(href, only_releases) ==
    /\ Truthy(href)
    /\ \E part \in AllowedParts(only_releases) : Contains(href, part)
    /\ ~\E part \in DisallowedParts : Contains(href, part)
    /\ \A part \in MustContain : Contains(FullUrl(href), part)

\* One pass of get_all_links' loop that leaves out "if full_url not in
\* self.all_links": a known URL is entered again as unvisited.
LinkStepAlways(href, only_releases, st) ==
    IF KeepHref(href, only_releases)
    THEN [mem |-> (FullUrl(href) :> FALSE) @@
                  [u \in DOMAIN st.mem \ {FullUrl(href)} |-> st.mem[u]],
          db |-> add_url(st.db, FullUrl(href)),
          out |-> Append(st.out, FullUrl(href))]
    ELSE st

\* One pass of get_all_links' loop that returns a URL only when it is new.
LinkStepNewOnly(href, only_releases, st) ==
    IF KeepHref(href, only_releases) /\ FullUrl(href) \notin DOMAIN st.mem
    THEN [mem |-> (FullUrl(href) :> FALSE) @@ st.mem,
          db |-> add_url(st.db, FullUrl(href)),
          out |-> Append(st.out, FullUrl(href))]
    ELSE st

\* One pass of get_all_links' loop over the page's links; st holds
\* self.all_links (mem), the urls table (db) and parsed_links (out).
LinkStep(href, only_releases, st) ==
    IF KeepHref(href, only_releases)
    THEN IF FullUrl(href) \in DOMAIN st.mem
         THEN [st EXCEPT !.out = Append(@, FullUrl(href))]
         ELSE [mem |-> (FullUrl(href) :> FALSE) @@ st.mem,
               db |-> add_url(st.db, FullUrl(href)),
               out |-> Append(st.out, FullUrl(href))]
    ELSE st

RECURSIVE LinkLoop(_, _, _)
LinkLoop(links, only_releases, st) ==
    IF links = <<>> THEN st
    ELSE LinkLoop(Tail(links), only_releases, LinkStep(Head(links), only_releases, st))

(***************************************************************************)
(* DateParser.parse_release_date.  A date text is a sequence of words      *)
(* (maximal runs of letters, one token each), blanks and single digits.    *)
(***************************************************************************)
\* DateParser.MONTHS
MONTHS ==
    [t \in {"january", "february", "march", "april", "may", "june", "july",
            "august", "september", "october", "november", "december"} |->
        CASE t = "january" -> 1 [] t = "february" -> 2 [] t = "march" -> 3
          [] t = "april" -> 4 [] t = "may" -> 5 [] t = "june" -> 6
          [] t = "july" -> 7 [] t = "august" -> 8 [] t = "september" -> 9
          [] t = "october" -> 10 [] t = "november" -> 11 [] t = "december" -> 12]

\* [a-zA-Z]+ matches exactly the word tokens.
IsWord(t) ==
    ~IsSpace(t) /\ t \notin Digits /\ t \notin {"-", ".", ":", ",", "(", "/"}

DigitVal(t) ==
    CASE t = "0" -> 0 [] t = "1" -> 1 [] t = "2" -> 2 [] t = "3" -> 3
      [] t = "4" -> 4 [] t = "5" -> 5 [] t = "6" -> 6 [] t = "7" -> 7
      [] t = "8" -> 8 [] t = "9" -> 9

DigitTok(n) ==
    CHOOSE t \in Digits : DigitVal(t) = n

\* The number of blanks from place i on.
RECURSIVE SpaceRun(_, _)
SpaceRun(s, i) ==
    IF i <= Len(s) /\ IsSpace(s[i]) THEN 1 + SpaceRun(s, i + 1) ELSE 0

\* ([a-zA-Z]+)\s+(\d{4}) matches at word i: blanks, then four digits.
DateMatchAt(s, i) ==
    /\ IsWord(s[i])
    /\ SpaceRun(s, i + 1) >= 1
    /\ LET j == i + 1 + SpaceRun(s, i + 1)
       IN  j + 3 <= Len(s) /\ \A k \in j..(j + 3) : s[k] \in Digits

\* strftime('%Y'): the C library's %Y, which gives four digits on some
\* builds (pads) and the year without leading zeros on others (glibc).
strftime_Y(year, pads) ==
    LET four == <<DigitTok(year \div 1000), DigitTok((year \div 100) % 10),
                  DigitTok((year \div 10) % 10), DigitTok(year % 10)>>
        lead == CHOOSE n \in 0..3 :
                    /\ \A i \in 1..n : four[i] = "0"
                    /\ four[n + 1] # "0"
    IN  IF pads THEN four ELSE SubSeq(four, lead + 1, 4)

\* strftime('%Y-%m-%d') of datetime(year, month, 1), year >= 1
FormatDate(year, month, pads) ==
    strftime_Y(year, pads)
        \o <<"-", DigitTok(month \div 10), DigitTok(month % 10), "-", "0", "1">>

parse_release_date(date_text, pads) ==
    IF ~Truthy(date_text) THEN None
    ELSE
    LET lowered == Strip(Lower(date_text))
        text == IF StartsWith(lowered, <<"released", " ">>)
                THEN Strip(SubSeq(lowered, 3, Len(lowered)))
                ELSE lowered
        hits == {i \in 1..Len(text) : DateMatchAt(text, i)}
    IN  IF hits = {} THEN None
        ELSE
        LET i == CHOOSE h \in hits : \A g \in hits : h <= g
            j == i + 1 + SpaceRun(text, i + 1)
            month_str == text[i]
            year == 1000 * DigitVal(text[j]) + 100 * DigitVal(text[j + 1])
                    + 10 * DigitVal(text[j + 2]) + DigitVal(text[j + 3])
        IN  IF month_str \notin DOMAIN MONTHS THEN None
            ELSE IF year < 1 THEN None    \* datetime raises ValueError
            ELSE FormatDate(year, MONTHS[month_str], pads)

(***************************************************************************)
(* Scraper.clean_title.  A title is a sequence of characters.              *)
(***************************************************************************)
\* {1,6} of the pattern of clean_title
MaxPrefix == 6

\* The lengths k of a prefix the pattern ^([^\s]{1,6})\.\s+(.+)$ can take:
\* k characters that are no blanks, a dot, a blank.
PrefixLens(title) ==
    {k \in 1..MaxPrefix :
        /\ k + 2 <= Len(title)
        /\ \A i \in 1..k : ~IsSpace(title[i])
        /\ title[k + 1] = "."
        /\ IsSpace(title[k + 2])}

\* What (.+)$ takes after a prefix of k characters and m blanks: the rest,
\* not empty and without a line break.
RestAfter(title, k, m) ==
    SubSeq(title, k + 2 + m, Len(title))

RestOk(title, k, m) ==
    /\ m <= SpaceRun(title, k + 2)
    /\ RestAfter(title, k, m) # <<>>
    /\ "\n" \notin {RestAfter(title, k, m)[i] : i \in 1..Len(RestAfter(title, k, m))}

\* The (k, m) the greedy match ends with: the longest prefix, then the
\* longest run of blanks, for which the rest matches.
CleanMatches(title) ==
    {km \in PrefixLens(title) \X (1..Len(title)) : RestOk(title, km[1], km[2])}

clean_title(title) ==
    IF Truthy(title) /\ CleanMatches(title) # {}
    THEN LET km == CHOOSE x \in CleanMatches(title) :
                       \A y \in CleanMatches(title) :
                           x[1] > y[1] \/ (x[1] = y[1] /\ x[2] >= y[2])
         IN  [prefix |-> SubSeq(title, 1, km[1]), rest |-> RestAfter(title, km[1], km[2])]
    ELSE [prefix |-> None, rest |-> title]

(***************************************************************************)
(* Scraper.parse_data.  A page is what BeautifulSoup finds in it:          *)
(*   desc       there is a div of class product-desc                       *)
(*   h3, h6     the text of its first h3 and h6, None when it has none     *)
(*   ps         its paragraphs, each the texts of its links                *)
(*   cover      "none": no div of class detail-page-image; "div": the div  *)
(*              without an img; "img": the div with an img                 *)
(*   src, alt   the attributes of that img, None when missing              *)
(*   date       the text of the div of class release-date, None without it *)
(*   tab1, tab2, tab6   the text of the div of that id, None without it    *)
(*   tab5       there is a div of id tab5; tab5links: the texts of its     *)
(*              links                                                      *)
(***************************************************************************)
\* The text an f-string pattern cannot be compiled from (re.error): an
\* unbalanced parenthesis.
RegexInvalid(pattern) ==
    \E i \in 1..Len(pattern) : pattern[i] = "("

\* The places where pattern followed by \s matches in text, ignoring case.
SearchHits(pattern, text) ==
    {i \in 1..Len(text) :
        /\ i + Len(pattern) <= Len(text)
        /\ Lower(SubSeq(text, i, i + Len(pattern) - 1)) = Lower(pattern)
        /\ IsSpace(text[i + Len(pattern)])}

\* re.sub(pattern + \s, '', text, flags=re.IGNORECASE)
RECURSIVE RegexRemove(_, _)
RegexRemove(pattern, text) ==
    IF SearchHits(pattern, text) = {} THEN text
    ELSE LET i == CHOOSE h \in SearchHits(pattern, text) :
                      \A g \in SearchHits(pattern, text) : h <= g
         IN  SubSeq(text, 1, i - 1)
             \o RegexRemove(pattern, SubSeq(text, i + Len(pattern) + 1, Len(text)))

Raised(exc, data) ==
    [kind |-> "raised", exc |-> exc, data |-> data]

Parsed(data) ==
    [kind |-> "data", exc |-> "", data |-> data]

\* Lines 267-276: the title and the series tag.
TitleStepThrice(doc, data) ==
    LET title == IF doc.h3 # None THEN Strip(doc.h3) ELSE None
        first == clean_title(title)
        second == clean_title(first.rest)
        third == clean_title(second.rest)
    IN  IF ~Truthy(first.prefix)
        THEN [data EXCEPT !.title = title]
        ELSE IF ~Truthy(second.prefix)
        THEN [data EXCEPT !.series_tag = first.prefix, !.title = first.rest]
        ELSE IF ~Truthy(third.prefix)
        THEN [data EXCEPT !.series_tag = first.prefix \o <<".">> \o second.prefix,
                          !.title = second.rest]
        ELSE [data EXCEPT !.series_tag = first.prefix \o <<".">> \o second.prefix
                                             \o <<".">> \o third.prefix,
                          !.title = third.rest]

TitleStep(doc, data) ==
    LET title == IF doc.h3 # None THEN Strip(doc.h3) ELSE None
        first == clean_title(title)
        second == clean_title(first.rest)
    IN  IF ~Truthy(first.prefix)
        THEN [data EXCEPT !.title = title]
        ELSE IF ~Truthy(second.prefix)
        THEN [data EXCEPT !.series_tag = first.prefix, !.title = first.rest]
        ELSE [data EXCEPT !.series_tag = first.prefix \o <<".">> \o second.prefix,
                          !.title = second.rest]

\* Lines 278-285: the series, and the title without the series in front.
SeriesStep(doc, data0) ==
    LET data == [data0 EXCEPT !.series = IF doc.h6 # None THEN Strip(doc.h6) ELSE None]
        pattern1 == PyStr(data.series) \o <<":">>
    IN  IF RegexInvalid(pattern1) THEN Raised("re.error", data)
        ELSE IF data.title = None THEN Raised("TypeError", data)
        ELSE
        LET data1 == [data EXCEPT !.title = RegexRemove(pattern1, @)]
        IN  IF data1.series = None THEN Raised("AttributeError", data1)
            ELSE
            LET tmp_series == Replace(data1.series, <<" ", "-">>, <<":">>)
                pattern2 == tmp_series \o <<":">>
            IN  Parsed([data1 EXCEPT !.title = RegexRemove(pattern2, @)])

\* Lines 265-285.
DescStep(doc, data) ==
    IF doc.desc THEN SeriesStep(doc, TitleStep(doc, data)) ELSE Parsed(data)

\* Lines 287-294: the cover image.
CoverStep(doc, data) ==
    IF doc.cover = "img"
    THEN [data EXCEPT
            !.cover_url = IF Truthy(doc.src) /\ ~StartsWith(doc.src, <<"http">>)
                          THEN base_url \o doc.src ELSE doc.src,
            !.title = IF Truthy(doc.alt) THEN doc.alt ELSE @]
    ELSE data

\* Lines 297-302: the release date.  The pages of the model carry years
\* from 1000 on, for which strftime gives the same on every build.
DateStep(doc, data) ==
    IF doc.date # None /\ Truthy(parse_release_date(Strip(doc.date), FALSE))
    THEN [data EXCEPT !.release_date = parse_release_date(Strip(doc.date), FALSE)]
    ELSE data

StripAll(names) ==
    [i \in 1..Len(names) |-> Strip(names[i])]

\* Lines 305-309: writers and narrators from the paragraphs.
CreditsStep(doc, data) ==
    LET paragraphs == IF doc.desc THEN doc.ps ELSE <<>>
    IN  [data EXCEPT
            !.written_by = IF Len(paragraphs) > 0
                           THEN JoinNames(StripAll(paragraphs[1])) ELSE @,
            !.narrated_by = IF Len(paragraphs) > 1
                            THEN JoinNames(StripAll(paragraphs[2])) ELSE @]

\* .split(' ')[0].split('\n')[0]
FirstWord(s) ==
    BeforeFirst(BeforeFirst(s, <<" ">>), <<"\n">>)

\* The number of digits from place i on.
RECURSIVE DigitRun(_, _)
DigitRun(s, i) ==
    IF i <= Len(s) /\ s[i] \in Digits THEN 1 + DigitRun(s, i + 1) ELSE 0

\* s[i] = '-'
DashAt(s, i) ==
    i <= Len(s) /\ s[i] = "-"

\* re.match(r'\d{3}-\d{1,5}-\d{1,7}-\d{1}', isbn): a match of a prefix.
IsbnMatch(isbn) ==
    LET a == DigitRun(isbn, 1)
        b == DigitRun(isbn, 5)
        c == DigitRun(isbn, 6 + b)
    IN  /\ a = 3 /\ DashAt(isbn, 4)
        /\ b \in 1..5 /\ DashAt(isbn, 5 + b)
        /\ c \in 1..7 /\ DashAt(isbn, 6 + b + c)
        /\ DigitRun(isbn, 7 + b + c) >= 1

DigitalMarker == <<"Digital Retail ISBN:", " ">>
PhysicalMarker == <<"Physical Retail ISBN:", " ">>

\* Lines 327-336: the ISBN after a marker, None unless it matches.
IsbnAfter(text, marker) ==
    IF IsbnMatch(FirstWord(SplitSecond(text, marker)))
    THEN FirstWord(SplitSecond(text, marker)) ELSE None

\* Lines 323-336: the production tab.
ProductionStep(doc, data0) ==
    IF doc.tab6 = None THEN Parsed(data0)
    ELSE
    LET text == Strip(doc.tab6)
        data == [data0 EXCEPT !.production = text]
    IN  IF Contains(text, <<"Duration:">>) /\ ~Contains(text, <<"Duration:", " ">>)
        THEN Raised("IndexError", data)
        ELSE
        LET data1 == IF Contains(text, <<"Duration:">>)
                     THEN [data EXCEPT !.duration =
                               FirstWord(SplitSecond(text, <<"Duration:", " ">>))]
                     ELSE data
        IN  Parsed([data1 EXCEPT !.isbn =
                IF Contains(text, DigitalMarker) THEN IsbnAfter(text, DigitalMarker)
                ELSE IF Contains(text, PhysicalMarker) THEN IsbnAfter(text, PhysicalMarker)
                ELSE @])

\* Lines 312-321: the tabs about, background and cast.
TabsStep(doc, data) ==
    [data EXCEPT
        !.about = IF doc.tab1 # None THEN Strip(doc.tab1) ELSE @,
        !.background = IF doc.tab2 # None THEN Strip(doc.tab2) ELSE @,
        !.narrated_by = IF doc.tab5 THEN JoinNames(StripAll(doc.tab5links)) ELSE @]

\* The html get_html can return: None ("none"), an empty body ("empty"),
\* text BeautifulSoup raises on ("garbage"), or a page with its links and
\* its sections.
NoDoc ==
    [desc |-> FALSE, h3 |-> None, h6 |-> None, ps |-> <<>>, cover |-> "none",
     src |-> None, alt |-> None, date |-> None, tab1 |-> None, tab2 |-> None,
     tab5 |-> FALSE, tab5links |-> <<>>, tab6 |-> None]

NoHtml ==
    [kind |-> "none"]

EmptyHtml ==
    [kind |-> "empty"]

GarbageHtml ==
    [kind |-> "garbage"]

Page(links, doc) ==
    [kind |-> "page", links |-> links, doc |-> doc]

\* "if content:", "if html:"
HtmlTruthy(html) ==
    html.kind \in {"garbage", "page"}

\* Scraper.parse_data up to its return value: "none" when BeautifulSoup
\* raised, "raised" with the exception that escapes, "data" with the dict.
parse_data(url, html) ==
    IF html.kind \in {"none", "garbage"}
    THEN [kind |-> "none", exc |-> "", data |-> NoneData]
    ELSE
    LET doc == IF html.kind = "page" THEN html.doc ELSE NoDoc
        r1 == DescStep(doc, EmptyData(url))
    IN  IF r1.kind = "raised" THEN r1
        ELSE ProductionStep(doc,
                 TabsStep(doc, CreditsStep(doc, DateStep(doc, CoverStep(doc, r1.data)))))

\* parse_data without its save_content.
parse_data_db_nosave(db, url, html) ==
    db

\* parse_data's effect on the content table: self.db.save_content(data)
\* is reached only when nothing raised.
parse_data_db(db, url, html) ==
    IF parse_data(url, html).kind = "data"
    THEN save_content(db, parse_data(url, html).data)
    ELSE db

\* Scraper.get_all_links: the new self.all_links (mem) and urls table (db)
\* and the returned list (out).
get_all_links(html, only_releases, mem, db) ==
    IF html.kind # "page" THEN [mem |-> mem, db |-> db, out |-> <<>>]
    ELSE LinkLoop(html.links, only_releases, [mem |-> mem, db |-> db, out |-> <<>>])

(***************************************************************************)
(* The pages the crawl and the live search are run on.  A page is read     *)
(* twice: by get_all_links, which reads its links, and by parse_data,      *)
(* which reads its sections.  The two parts do not depend on each other,   *)
(* and the model chooses each part when it is read: get_html chooses the   *)
(* links, content keeps what is left to read (the kind of html it is), and *)
(* Sections(content) are the pages parse_data can find it to be.           *)
(***************************************************************************)
\* A release page with every section.
GoodDoc ==
    [desc |-> TRUE,
     h3 |-> <<" ", "1", ".", " ", "S", ":", " ", "T">>,
     h6 |-> <<"S">>,
     ps |-> << <<<<"W">>>>, <<<<"N">>>> >>,
     cover |-> "img", src |-> <<"/img/", "1">>, alt |-> None,
     date |-> <<"Released", " ", "March", " ", "2", "0", "2", "0">>,
     tab1 |-> <<"about">>, tab2 |-> None,
     tab5 |-> FALSE, tab5links |-> <<>>,
     tab6 |-> <<"Duration:", " ", "6", "0", "\n", "Digital Retail ISBN:", " ",
                "9", "7", "8", "-", "1", "-", "2", "-", "3">>]

\* A description block without a series heading.
NoSeriesDoc ==
    [NoDoc EXCEPT !.desc = TRUE, !.h3 = <<"T">>]

\* A description block without a title heading.
NoTitleDoc ==
    [NoDoc EXCEPT !.desc = TRUE, !.h6 = <<"S">>]

\* A production tab with "Duration:" not followed by a blank.
BadDurationDoc ==
    [NoDoc EXCEPT !.tab6 = <<"Duration:", "6", "0">>]

CrawlDocs ==
    {GoodDoc, NoDoc, NoSeriesDoc, NoTitleDoc, BadDurationDoc}

\* The sequences over S of length at most n.
SeqsUpTo(S, n) ==
    UNION {[1..k -> S] : k \in 0..n}

\* The link lists of the crawl's pages: at most MaxLinks of CrawlHrefSeq, in
\* its order.  The order and the repetitions of a page's links only show in
\* the list get_all_links returns, which run() drops.
RECURSIVE Pick(_, _)
Pick(s, keep) ==
    IF s = <<>> THEN <<>>
    ELSE (IF Len(s) \in keep THEN <<Head(s)>> ELSE <<>>) \o Pick(Tail(s), keep)

CrawlLinks ==
    {Pick(CrawlHrefSeq, keep) :
        keep \in {k \in SUBSET (1..Len(CrawlHrefSeq)) : Cardinality(k) <= MaxLinks}}

\* What get_html(url) can return: requests raised (None), or response.text.
get_html ==
    {NoHtml, EmptyHtml, GarbageHtml}
    \cup {[kind |-> "page", links |-> links] : links \in CrawlLinks}

\* The pages html can be, given its links.
Sections(html) ==
    IF html.kind = "page" THEN {Page(<<>>, d) : d \in CrawlDocs} ELSE {html}

\* The URLs the crawl can come to know, and the seed.
FetchUrls ==
    {base_url} \cup {FullUrl(h) : h \in {g \in CrawlHrefs : KeepHref(g, FALSE)}}

(***************************************************************************)
(* Scraper.run, one action per step.  The for loop takes the batch in the  *)
(* order of the dict; the model lets it take the batch in any order.       *)
(***************************************************************************)
Count(f, url) ==
    [f EXCEPT ![url] = IF @ < MaxFetch THEN @ + 1 ELSE @]

\* Where the for loop goes after a link: the next link, or the while loop.
AfterLink(rest) ==
    IF rest = {} THEN "loop" ELSE "visit"

\* Lines 342-346: no stored URLs, the seed is fetched and its links classified.
Bootstrap ==
    /\ pc = "start"
    /\ DOMAIN all_links = {}
    /\ \E html \in get_html :
        LET st == get_all_links(html, FALSE, all_links, db_urls)
        IN  /\ fetches' = Count(fetches, base_url)
            /\ fetch_failed' = (fetch_failed \/ html.kind = "none")
            /\ all_links' = IF HtmlTruthy(html) THEN st.mem ELSE all_links
            /\ db_urls' = IF HtmlTruthy(html) THEN st.db ELSE db_urls
    /\ pc' = "loop"
    /\ UNCHANGED <<db_content, batch, link, content, search_vars, fun_vars>>

\* Lines 347-348: the stored URLs are used.
Loaded ==
    /\ pc = "start"
    /\ DOMAIN all_links # {}
    /\ pc' = "loop"
    /\ UNCHANGED <<db_urls, db_content, all_links, batch, link, content, fetches, fetch_failed,
                   search_vars, fun_vars>>

\* Lines 351-354 with "not visited" left out.
UnvisitedAll(mem) ==
    {u \in DOMAIN mem : IsDetail(u)}

\* Lines 351-354 with "/releases/v/" in link left out.
UnvisitedAny(mem) ==
    {u \in DOMAIN mem : ~mem[u]}

\* Lines 351-354
Unvisited(mem) ==
    {u \in DOMAIN mem : ~mem[u] /\ IsDetail(u)}

\* Lines 350-360: the batch of this pass of the while loop.
LoopBatch ==
    /\ pc = "loop"
    /\ Unvisited(all_links) # {}
    /\ batch' = Unvisited(all_links)
    /\ pc' = "visit"
    /\ UNCHANGED <<db_urls, db_content, all_links, link, content, fetches, fetch_failed,
                   search_vars, fun_vars>>

\* Lines 356-358: no unvisited detail URL is left.
LoopDone ==
    /\ pc = "loop"
    /\ Unvisited(all_links) = {}
    /\ pc' = "done"
    /\ UNCHANGED <<db_urls, db_content, all_links, batch, link, content, fetches, fetch_failed,
                   search_vars, fun_vars>>

\* Lines 361-365: the next link is fetched, and with content its links are
\* classified.
Visit ==
    /\ pc = "visit"
    /\ \E l \in batch, html \in get_html :
        LET st == get_all_links(html, TRUE, all_links, db_urls)
        IN  /\ link' = l
            /\ batch' = batch \ {l}
            /\ fetches' = Count(fetches, l)
            /\ fetch_failed' = (fetch_failed \/ html.kind = "none")
            /\ IF HtmlTruthy(html)
               THEN /\ all_links' = st.mem
                    /\ db_urls' = st.db
                    /\ content' = [kind |-> html.kind]
                    /\ pc' = "parse"
               ELSE /\ UNCHANGED <<all_links, db_urls>>
                    /\ content' = html
                    /\ pc' = AfterLink(batch \ {l})
    /\ UNCHANGED <<db_content, search_vars, fun_vars>>

\* Lines 366-367: the record is extracted and saved, or parse_data raises
\* and the exception leaves run().
Parse ==
    /\ pc = "parse"
    /\ IF IsDetail(link)
       THEN \E page \in Sections(content) :
               /\ db_content' = parse_data_db(db_content, link, page)
               /\ pc' = IF parse_data(link, page).kind = "raised"
                        THEN "aborted" ELSE "markdb"
               /\ content' = IF parse_data(link, page).kind = "raised"
                             THEN NoHtml ELSE content
       ELSE /\ UNCHANGED <<db_content, content>>
            /\ pc' = "markdb"
    /\ UNCHANGED <<db_urls, all_links, batch, link, fetches, fetch_failed,
                   search_vars, fun_vars>>

\* Line 368
MarkDb ==
    /\ pc = "markdb"
    /\ db_urls' = mark_url_visited(db_urls, link)
    /\ pc' = "markmem"
    /\ UNCHANGED <<db_content, all_links, batch, link, content, fetches, fetch_failed,
                   search_vars, fun_vars>>

\* self.all_links[link] = True that forgets the link instead.
SetVisitedDrop(mem, url) ==
    [u \in DOMAIN mem \ {url} |-> mem[u]]

\* Line 369: self.all_links[link] = True
SetVisited(mem, url) ==
    (url :> TRUE) @@ mem

MarkMem ==
    /\ pc = "markmem"
    /\ all_links' = SetVisited(all_links, link)
    /\ pc' = AfterLink(batch)
    /\ content' = NoHtml
    /\ UNCHANGED <<db_urls, db_content, batch, link, fetches, fetch_failed,
                   search_vars, fun_vars>>

\* test(): KeyboardInterrupt ends run() wherever it stands.
Interrupt ==
    /\ pc \in {"start", "loop", "visit", "parse", "markdb", "markmem"}
    /\ pc' = "interrupted"
    /\ content' = NoHtml
    /\ UNCHANGED <<db_urls, db_content, all_links, batch, link, fetches, fetch_failed,
                   search_vars, fun_vars>>

\* Scraper.__init__ and run() in a new process: all_links is loaded from
\* the urls table.
Reload ==
    /\ pc \in {"done", "aborted", "interrupted"}
    /\ all_links' = get_all_urls(db_urls)
    /\ pc' = "start"
    /\ batch' = {}
    /\ link' = None
    /\ fetches' = [u \in FetchUrls |-> 0]
    /\ fetch_failed' = FALSE
    /\ UNCHANGED <<db_urls, db_content, content, search_vars>>

Restart ==
    /\ Reload
    /\ UNCHANGED fun_vars

Crawl ==
    \/ Bootstrap
    \/ Loaded
    \/ LoopBatch
    \/ LoopDone
    \/ Visit
    \/ Parse
    \/ MarkDb
    \/ MarkMem
    \/ Interrupt
    \/ Restart

\* The state after Scraper(base_url) on an empty database, no request
\* being served.
Init ==
    /\ db_urls = {}
    /\ db_content = {}
    /\ all_links = get_all_urls({})
    /\ pc = "start"
    /\ batch = {}
    /\ link = None
    /\ content = NoHtml
    /\ fetches = [u \in FetchUrls |-> 0]
    /\ fetch_failed = FALSE
    /\ spc = "idle"
    /\ pending = <<>>
    /\ datas = <<>>
    /\ response = <<>>
    /\ input = <<>>
    /\ output = <<>>

Next ==
    Crawl

Spec ==
    Init /\ [][Next]_vars

(***************************************************************************)
(* The store alone: add_url, mark_url_visited and save_content called in   *)
(* any order by any client, from the empty tables create_tables leaves;    *)
(* input is the list of the calls made.                                    *)
(***************************************************************************)
StoreUrls ==
    {FullUrl(HDetail1), FullUrl(HDetail2)}

\* The dicts save_content is called with for url.
StoreDatas(url) ==
    {EmptyData(url),
     [EmptyData(url) EXCEPT !.title = <<"T">>, !.series = <<"S">>],
     [EmptyData(url) EXCEPT !.title = <<"T", "2">>, !.isbn = <<"9">>]}

Call(op, url, data) ==
    [op |-> op, url |-> url, data |-> data]

StoreAddUrl ==
    /\ Len(input) < MaxOps
    /\ \E url \in StoreUrls :
        /\ db_urls' = add_url(db_urls, url)
        /\ input' = Append(input, Call("add_url", url, NoneData))
    /\ UNCHANGED <<db_content, crawl_vars, search_vars, output>>

StoreMarkVisited ==
    /\ Len(input) < MaxOps
    /\ \E url \in StoreUrls :
        /\ db_urls' = mark_url_visited(db_urls, url)
        /\ input' = Append(input, Call("mark_url_visited", url, NoneData))
    /\ UNCHANGED <<db_content, crawl_vars, search_vars, output>>

StoreSaveContent ==
    /\ Len(input) < MaxOps
    /\ \E url \in StoreUrls : \E data \in StoreDatas(url) :
        /\ db_content' = save_content(db_content, data)
        /\ input' = Append(input, Call("save_content", url, data))
    /\ UNCHANGED <<db_urls, crawl_vars, search_vars, output>>

StoreNext ==
    \/ StoreAddUrl
    \/ StoreMarkVisited
    \/ StoreSaveContent

StoreSpec ==
    Init /\ [][StoreNext]_vars

\* The places of the calls of op for url in the list of calls.
Calls(op, url) ==
    {i \in 1..Len(input) : input[i].op = op /\ input[i].url = url}

Last(S) ==
    CHOOSE i \in S : \A j \in S : j <= i

\* C5: after any calls, a URL has one row if add_url or mark_url_visited was
\* called for it and none otherwise, and the row's flag is true exactly if
\* mark_url_visited was called for it: add_url inserts an unvisited row for
\* an absent URL and changes nothing for a present one.
C5_AddUrlInsertsIffAbsent ==
    \A url \in StoreUrls :
        /\ Cardinality(UrlRows(db_urls, url)) =
               IF Calls("add_url", url) \cup Calls("mark_url_visited", url) = {}
               THEN 0 ELSE 1
        /\ \A r \in UrlRows(db_urls, url) :
               r.visited = (Calls("mark_url_visited", url) # {})

\* add_url was called for a URL that was marked visited, and twice for one URL.
C5_Witness ==
    \E url \in StoreUrls :
        /\ \E i \in Calls("mark_url_visited", url) :
               \E j \in Calls("add_url", url) : i < j
        /\ Cardinality(Calls("add_url", url)) >= 2

\* C6: after any calls, the content table holds for each URL no row if
\* save_content was never called for it, and else the one row that is the
\* dict of the latest call, which return_data_for_url returns.
C6_SaveContentReplaces ==
    \A url \in StoreUrls :
        IF Calls("save_content", url) = {}
        THEN /\ ContentRows(db_content, url) = {}
             /\ return_data_for_url(db_content, url, TRUE) = NoneData
        ELSE /\ ContentRows(db_content, url) =
                    {input[Last(Calls("save_content", url))].data}
             /\ return_data_for_url(db_content, url, TRUE) =
                    input[Last(Calls("save_content", url))].data

\* A dict with a title was saved, and the latest dict saved for the same URL
\* has none.
C6_Witness ==
    \E url \in StoreUrls :
        /\ \E i \in Calls("save_content", url) :
               /\ i < Last(Calls("save_content", url))
               /\ input[i].data.title # None
        /\ Calls("save_content", url) # {}
        /\ input[Last(Calls("save_content", url))].data.title = None

(***************************************************************************)
(* parse_data alone: one call on a page whose sections are each present or *)
(* absent; input is the page, output what parse_data returned or raised.   *)
(***************************************************************************)
ParseUrl ==
    FullUrl(HDetail1)

\* The pages: every combination of the sections of GoodDoc being there or
\* not (headings and paragraphs only inside a description block), the
\* image with or without alt text.
ParseDocs ==
    {d \in [desc : BOOLEAN,
            h3 : {None, GoodDoc.h3},
            h6 : {None, GoodDoc.h6},
            ps : {<<>>, GoodDoc.ps},
            cover : {"none", "div", "img"},
            src : {None, GoodDoc.src},
            alt : {None, <<"A">>},
            date : {None, GoodDoc.date},
            tab1 : {None, GoodDoc.tab1},
            tab2 : {None, <<"background">>},
            tab5 : BOOLEAN,
            tab5links : {<<>>, <<<<"C">>>>},
            tab6 : {None, GoodDoc.tab6}] :
        /\ (~d.desc => d.h3 = None /\ d.h6 = None /\ d.ps = <<>>)
        /\ (d.cover # "img" => d.src = None /\ d.alt = None)
        /\ (~d.tab5 => d.tab5links = <<>>)}

ParseInit ==
    /\ db_urls = {}
    /\ db_content = {}
    /\ all_links = get_all_urls({})
    /\ pc = "start"
    /\ batch = {}
    /\ link = None
    /\ content = NoHtml
    /\ fetches = [u \in FetchUrls |-> 0]
    /\ fetch_failed = FALSE
    /\ spc = "idle"
    /\ pending = <<>>
    /\ datas = <<>>
    /\ response = <<>>
    /\ input \in {[page |-> Page(<<>>, d), done |-> FALSE] : d \in ParseDocs}
    /\ output = [kind |-> "pending"]

\* Scraper(base_url).parse_data(ParseUrl, html)
ParseCall ==
    /\ ~input.done
    /\ input' = [input EXCEPT !.done = TRUE]
    /\ output' = parse_data(ParseUrl, input.page)
    /\ db_content' = parse_data_db(db_content, ParseUrl, input.page)
    /\ UNCHANGED <<db_urls, crawl_vars, search_vars>>

ParseSpec ==
    ParseInit /\ [][ParseCall]_vars

\* C7: for every combination of present and absent sections parse_data
\* returns a record and saves it, and the fields of the absent sections are
\* absent in it.
C7_EverySectionOptional ==
    input.done =>
        LET doc == input.page.doc
            data == output.data
        IN  /\ output.kind = "data"
            /\ db_content = {data}
            /\ (~doc.desc \/ doc.h3 = None) /\ doc.alt = None => data.title = None
            /\ (~doc.desc \/ doc.h3 = None) => data.series_tag = None
            /\ (~doc.desc \/ doc.h6 = None) => data.series = None
            /\ doc.src = None => data.cover_url = None
            /\ doc.date = None => data.release_date = None
            /\ doc.ps = <<>> => data.written_by = None
            /\ doc.ps = <<>> /\ ~doc.tab5 => data.narrated_by = None
            /\ doc.tab1 = None => data.about = None
            /\ doc.tab2 = None => data.background = None
            /\ doc.tab6 = None =>
                   data.production = None /\ data.duration = None /\ data.isbn = None

(***************************************************************************)
(* get_all_links alone: one call on a page, from a frontier the crawl can  *)
(* have built; input is the page and only_releases, output the returned    *)
(* list.                                                                   *)
(***************************************************************************)
\* The hrefs of the page.
LinkHrefs ==
    {HDetail1, HDetail1Abs, HDetail2, HRange, HHub, HFacebook, HOther, None}

\* The urls tables the call starts from: detail URLs unknown, unvisited or
\* visited, the range URL unknown or unvisited.
LinkStores ==
    {add \cup mark :
        add \in SUBSET {[url |-> FullUrl(h), visited |-> FALSE] :
                            h \in {HDetail1, HDetail2, HRange}},
        mark \in SUBSET {[url |-> FullUrl(h), visited |-> TRUE] :
                            h \in {HDetail1, HDetail2}}}

LinkInit ==
    /\ db_urls \in {db \in LinkStores : \A r \in db : Cardinality(UrlRows(db, r.url)) = 1}
    /\ db_content = {}
    /\ all_links = get_all_urls(db_urls)
    /\ pc = "start"
    /\ batch = {}
    /\ link = None
    /\ content = NoHtml
    /\ fetches = [u \in FetchUrls |-> 0]
    /\ fetch_failed = FALSE
    /\ spc = "idle"
    /\ pending = <<>>
    /\ datas = <<>>
    /\ response = <<>>
    /\ input \in {[page |-> Page(links, NoDoc), only_releases |-> o, done |-> FALSE] :
                      links \in SeqsUpTo(LinkHrefs, MaxLinks), o \in BOOLEAN}
    /\ output = <<>>

\* scraper.get_all_links(html, only_releases)
LinkCall ==
    /\ ~input.done
    /\ input' = [input EXCEPT !.done = TRUE]
    /\ LET st == get_all_links(input.page, input.only_releases, all_links, db_urls)
       IN  /\ all_links' = st.mem
           /\ db_urls' = st.db
           /\ output' = st.out
    /\ UNCHANGED <<db_content, pc, batch, link, content, fetches, fetch_failed,
                   search_vars>>

LinkSpec ==
    LinkInit /\ [][LinkCall]_vars

\* The absolute URLs of the links of the page that pass the filter, one per
\* occurrence, in the page's order.
Passing(links, only_releases) ==
    LET Keep(h) == KeepHref(h, only_releases)
        kept == SelectSeq(links, Keep)
    IN  [i \in 1..Len(kept) |-> FullUrl(kept[i])]

Range(s) ==
    {s[i] : i \in 1..Len(s)}

\* C8: the call returns the passing URLs, one per occurrence; a passing URL
\* that was not known is entered unvisited in all_links and in the urls
\* table; every known URL, passing or not, keeps its flag and its row, and
\* nothing else is entered.
C8_GetAllLinksAddsUnknown ==
    [][~input.done /\ input'.done =>
        LET passing == Passing(input.page.links, input.only_releases)
        IN  /\ output' = passing
            /\ DOMAIN all_links' = DOMAIN all_links \cup Range(passing)
            /\ \A u \in DOMAIN all_links : all_links'[u] = all_links[u]
            /\ \A u \in Range(passing) \ DOMAIN all_links : all_links'[u] = FALSE
            /\ db_urls' = db_urls \cup
                   {[url |-> u, visited |-> FALSE] : u \in Range(passing) \ DOMAIN all_links}
      ]_vars

\* The call returned twice a URL that was visited and stayed visited.
C8_Witness ==
    /\ input.done
    /\ \E i, j \in 1..Len(output) : i # j /\ output[i] = output[j]
                                      /\ all_links[output[i]] /\ VisitedInDb(output[i])

(***************************************************************************)
(* The local search (outdated_scraper-api.py): the ranking of the rows of  *)
(* the content table against a query; input is the fetched rows, output    *)
(* top_matches.                                                            *)
(***************************************************************************)
Threshold == 60
TopK == 5

\* The titles of the stored rows, and fuzz.ratio(query.lower(),
\* title.lower()) of each for the query of the request.
T95 == <<"doctor who: flux">>
T61 == <<"doctor who: fluxes and more">>
T60 == <<"doctor what: a flux of more">>
T10 == <<"unrelated tale">>
RowTitles ==
    {T95, T61, T60, T10, None}

ratio(title) ==
    CASE title = T95 -> 95
      [] title = T61 -> 61
      [] title = T60 -> 60
      [] OTHER -> 10

\* The threshold passes a score of exactly 60 too.
PassesFrom60(r) ==
    r >= Threshold

Passes(r) ==
    r > Threshold

\* for row in results: the rows with a title whose ratio passes, as
\* (ratio, row) pairs in the order of the rows.
RECURSIVE matched_results(_, _)
matched_results(results, n) ==
    IF n = 0 THEN <<>>
    ELSE LET row == [rowid |-> n, title |-> results[n]]
         IN  IF Truthy(row.title) /\ Passes(ratio(row.title))
             THEN Append(matched_results(results, n - 1),
                         <<ratio(row.title), row>>)
             ELSE matched_results(results, n - 1)

\* list.sort(reverse=True, key=lambda x: x[0]) on a list of pairs:
\* descending by the first component, equal keys in their original order.
InsertDesc(sorted, x) ==
    LET k == Cardinality({i \in 1..Len(sorted) : sorted[i][1] >= x[1]})
    IN  SubSeq(sorted, 1, k) \o <<x>> \o SubSeq(sorted, k + 1, Len(sorted))

RECURSIVE sort_reverse(_)
sort_reverse(s) ==
    IF s = <<>> THEN <<>>
    ELSE InsertDesc(sort_reverse(SubSeq(s, 1, Len(s) - 1)), s[Len(s)])

Min(a, b) ==
    IF a <= b THEN a ELSE b

top_matches(results) ==
    LET sorted == sort_reverse(matched_results(results, Len(results)))
    IN  SubSeq(sorted, 1, Min(TopK, Len(sorted)))

RankInit ==
    /\ db_urls = {}
    /\ db_content = {}
    /\ all_links = get_all_urls({})
    /\ pc = "start"
    /\ batch = {}
    /\ link = None
    /\ content = NoHtml
    /\ fetches = [u \in FetchUrls |-> 0]
    /\ fetch_failed = FALSE
    /\ spc = "idle"
    /\ pending = <<>>
    /\ datas = <<>>
    /\ response = <<>>
    /\ input \in {[results |-> rs, done |-> FALSE] : rs \in SeqsUpTo(RowTitles, MaxRows)}
    /\ output = <<>>

\* search_audiobooks(query) up to top_matches
RankCall ==
    /\ ~input.done
    /\ input' = [input EXCEPT !.done = TRUE]
    /\ output' = top_matches(input.results)
    /\ UNCHANGED <<db_urls, db_content, crawl_vars, search_vars>>

RankSpec ==
    RankInit /\ [][RankCall]_vars

\* The rows that are candidates (they have a title) and whose score
\* satisfies Keep.
KeptRows(results, Keep(_)) ==
    {i \in 1..Len(results) : Truthy(results[i]) /\ Keep(ratio(results[i]))}

\* out is the K highest of the rows in kept, by descending score.
IsTopK(out, results, kept) ==
    /\ Len(out) = Min(TopK, Cardinality(kept))
    /\ \A k \in 1..Len(out) :
          /\ out[k][2].rowid \in kept
          /\ out[k][2].title = results[out[k][2].rowid]
          /\ out[k][1] = ratio(out[k][2].title)
    /\ \A k, l \in 1..Len(out) :
          k < l => out[k][1] >= out[l][1] /\ out[k][2].rowid # out[l][2].rowid
    /\ \A i \in kept \ {out[k][2].rowid : k \in 1..Len(out)} :
          \A k \in 1..Len(out) : out[k][1] >= ratio(results[i])

\* C9 as stated: the ranking discards exactly the candidates scoring below
\* 60, so one scoring exactly 60 is kept, orders the kept ones by descending
\* score and returns the 5 highest of them.
C9_KeepsFrom60 ==
    input.done => IsTopK(output, input.results, KeptRows(input.results, LAMBDA r : r >= Threshold))

\* C9 amended: the ranking discards exactly the candidates scoring 60 or
\* below, so one scoring exactly 60 is discarded, orders the kept ones by
\* descending score and returns the 5 highest of them.
C9_KeepsAbove60 ==
    input.done => IsTopK(output, input.results, KeptRows(input.results, LAMBDA r : r > Threshold))

\* Six rows passed the threshold, with different scores, a seventh scored
\* exactly 60, and five came back.
C9_Witness ==
    /\ input.done
    /\ \E i \in 1..Len(input.results) : input.results[i] = T60
    /\ Cardinality(KeptRows(input.results, LAMBDA r : r > Threshold)) > TopK
    /\ Len(output) = TopK
    /\ \E k, l \in 1..Len(output) : output[k][1] > output[l][1]

(***************************************************************************)
(* The live search (web-api.py): Search.search and the ranking of the      *)
(* /search/ handler.  spc is the position of the request, pending the      *)
(* entries of the suggest response not yet resolved, datas the list        *)
(* Search.search builds, response the handler's sorted matches; output     *)
(* keeps what each pass of the loop of this request did.                   *)
(***************************************************************************)
\* A suggest entry without an 'id' key.
NoId ==
    None

SuggestIds ==
    {<<"1">>, <<"2">>, NoId}

\* What the suggest request gives: an exception (requests.get,
\* raise_for_status or response.json raised), a JSON value that is not a
\* non-empty dict, or a dict of entries.
SuggestResults ==
    {[kind |-> "fail", entries |-> <<>>], [kind |-> "empty", entries |-> <<>>]}
    \cup {[kind |-> "dict", entries |-> es] :
             es \in SeqsUpTo(SuggestIds, MaxSuggest) \ {<<>>}}

\* A detail page titled T95.
FluxDoc ==
    [NoDoc EXCEPT !.desc = TRUE, !.h3 = T95, !.h6 = <<"S">>]

\* What the fetch of a detail page gives: an exception (requests.get or
\* raise_for_status raised) or response.text.
DetailResults ==
    {[kind |-> "fail"], EmptyHtml, GarbageHtml}
    \cup {Page(<<>>, d) : d \in {GoodDoc, FluxDoc, NoDoc, NoSeriesDoc}}

\* Lines 393-404: the suggest request.
SearchSuggest ==
    /\ spc = "idle"
    /\ \E res \in SuggestResults :
          /\ spc' = CASE res.kind = "fail" -> "raised"
                      [] res.kind = "empty" -> "returned"
                      [] OTHER -> "resolving"
          /\ pending' = res.entries
    /\ UNCHANGED <<db_urls, db_content, crawl_vars, datas, response, fun_vars>>

\* What a pass of the loop did: the lookup in the store returned a record
\* ("hit"), found none ("miss") or failed ("error"), and the detail
\* request was not made ("none"), failed ("fail") or returned a text ("ok").
Pass(url, lookup, fetch) ==
    [url |-> url, lookup |-> lookup, fetch |-> fetch]

\* Lines 405-420: one pass of the loop over the suggest entries.
SearchResolve ==
    /\ spc = "resolving"
    /\ pending # <<>>
    /\ LET result == Head(pending)
           new_url == base_url \o DetailPart \o result
       IN  IF result = NoId
           THEN /\ spc' = "raised"
                /\ UNCHANGED <<db_content, pending, datas, output>>
           ELSE \E io_ok \in BOOLEAN, text \in DetailResults :
                  LET data == return_data_for_url(db_content, new_url, io_ok)
                      parsed == parse_data(new_url, text)
                  IN  IF data # NoneData
                      THEN /\ datas' = Append(datas, data)
                           /\ pending' = Tail(pending)
                           /\ output' = Append(output, Pass(new_url, "hit", "none"))
                           /\ UNCHANGED <<spc, db_content>>
                      ELSE /\ output' = Append(output,
                                  Pass(new_url, IF io_ok THEN "miss" ELSE "error",
                                       IF text.kind = "fail" THEN "fail" ELSE "ok"))
                           /\ IF text.kind = "fail" \/ parsed.kind = "raised"
                              THEN /\ spc' = "raised"
                                   /\ UNCHANGED <<pending, datas>>
                              ELSE /\ datas' = Append(datas, parsed.data)
                                   /\ pending' = Tail(pending)
                                   /\ UNCHANGED spc
                           /\ db_content' = IF text.kind = "fail" THEN db_content
                                            ELSE parse_data_db(db_content, new_url, text)
    /\ UNCHANGED <<db_urls, crawl_vars, response, input>>

\* web-api.py lines 41-43: the (score, match) pairs of the handler.
scored_matches(top) ==
    [i \in 1..Len(top) |-> <<ratio(top[i].title), top[i]>>]

\* web-api.py lines 37-78: Search.search returned datas and the handler
\* scores and sorts it; match['title'] raises on a match that is None and
\* .lower() on a title that is None.
SearchRank ==
    /\ spc = "resolving"
    /\ pending = <<>>
    /\ IF \E i \in 1..Len(datas) : datas[i] = NoneData \/ datas[i].title = None
       THEN /\ spc' = "raised"
            /\ UNCHANGED response
       ELSE /\ spc' = "returned"
            /\ response' = LET sorted == sort_reverse(scored_matches(datas))
                           IN  [i \in 1..Len(sorted) |-> sorted[i][2]]
    /\ UNCHANGED <<db_urls, db_content, crawl_vars, pending, datas, fun_vars>>

\* The server takes the next request.
SearchReset ==
    /\ spc \in {"returned", "raised"}
    /\ spc' = "idle"
    /\ pending' = <<>>
    /\ datas' = <<>>
    /\ response' = <<>>
    /\ output' = <<>>
    /\ UNCHANGED <<db_urls, db_content, crawl_vars, input>>

LiveNext ==
    \/ SearchSuggest
    \/ SearchResolve
    \/ SearchRank
    \/ SearchReset

LiveSpec ==
    Init /\ [][LiveNext]_vars

\* C10: the live search never raises: whatever the suggest request, the
\* detail fetches and the extraction give, the request ends with a list.
C10_LiveSearchNeverRaises ==
    spc # "raised"

(***************************************************************************)
(* The claims about the crawl, checked under Spec.                         *)
(***************************************************************************)
RunEnded ==
    pc \in {"done", "aborted"}

\* C1: when every fetch of a run succeeded and run() has ended, every
\* detail URL of the frontier is marked visited, in memory and in the
\* store, and was not fetched twice.
C1_EndedRunVisitedEveryDetail ==
    (RunEnded /\ ~fetch_failed) =>
        \A u \in DOMAIN all_links :
            IsDetail(u) => all_links[u] /\ VisitedInDb(u) /\ fetches[u] <= 1

\* A step of the for loop whose get_html returned None.
FailedVisit ==
    pc = "visit" /\ pc' \in {"visit", "loop"} /\ content'.kind = "none"

\* C2: the step of the for loop whose fetch returned None leaves the link
\* marked visited, in memory and in the store.
C2_FailedFetchMarksVisited ==
    [][FailedVisit => (all_links'[link'] /\ VisitedInDb(link)')]_vars

\* C3: no exception leaves run(), whatever the fetched page holds.
C3_RunNeverAborts ==
    pc # "aborted"

\* A step of the for loop: get_html(link') was called.
FetchStep ==
    pc = "visit" /\ pc' \in {"visit", "loop", "parse"}

\* C4: no step removes a URL from the frontier or from the urls table, or
\* turns a visited flag back to false; the table never holds two rows for one
\* URL; the for loop never fetches a URL that is marked visited.
C4_FrontierOnlyGrows ==
    [][/\ \A u \in DOMAIN all_links :
            u \in DOMAIN all_links' /\ (all_links[u] => all_links'[u])
       /\ \A r \in db_urls :
            UrlRows(db_urls', r.url) # {} /\ (r.visited => VisitedInDb(r.url)')
       /\ \A r \in db_urls' : Cardinality(UrlRows(db_urls', r.url)) = 1
       /\ FetchStep => (~all_links[link'] /\ ~VisitedInDb(link'))]_vars

\* A later link of the run was fetched and classified while another URL is
\* marked visited.
C4_Witness ==
    /\ pc = "parse"
    /\ \E u \in DOMAIN all_links : u # link /\ all_links[u] /\ VisitedInDb(u)

\* C18: a detail URL becomes visited in the store only at the mark of the
\* link in hand, which comes after its classification and extraction, and
\* if its page was parsed its record is then in the content table; and no
\* record ever leaves the content table.  So in every state, after an
\* interruption too, the visited detail URLs that were parsed have records.
C18_RecordBeforeVisited ==
    [][/\ \A u \in FetchUrls :
             ~VisitedInDb(u) /\ VisitedInDb(u)' =>
                 /\ pc = "markdb" /\ u = link /\ u \in DOMAIN all_links
                 /\ IsDetail(u) /\ content.kind = "page" =>
                        ContentRows(db_content, u) # {}
       /\ \A u \in FetchUrls :
             ContentRows(db_content, u) # {} => ContentRows(db_content', u) # {}
      ]_vars

\* The run was interrupted with a detail URL visited and its record
\* stored, and another one with its record stored and not yet visited.
C18_Witness ==
    /\ pc = "interrupted"
    /\ \E u, v \in FetchUrls :
          /\ VisitedInDb(u) /\ ContentRows(db_content, u) # {}
          /\ ~VisitedInDb(v) /\ ContentRows(db_content, v) # {}

\* C19: when the Scraper was constructed, after each of its get_all_links
\* calls and after each step of its loop, that is whenever it is not
\* between the two marks of a link, all_links is what get_all_urls gives.
C19_FrontierMirrorsStore ==
    pc \in {"start", "loop", "visit", "parse", "markdb", "done", "aborted"} =>
        all_links = get_all_urls(db_urls)

\* A step of the loop was completed and the loop goes on: the frontier
\* holds a visited URL and an unvisited one found on the way.
C19_Witness ==
    /\ pc = "visit"
    /\ all_links = get_all_urls(db_urls)
    /\ \E u, v \in DOMAIN all_links : all_links[u] /\ ~all_links[v] /\ v \notin batch

\* The URLs without "/releases/v/" that the Scraper or the urls table knows.
OtherUrls(mem, db) ==
    {u \in DOMAIN mem \cup {r.url : r \in db} : ~IsDetail(u)}

\* C21: the loop fetches and marks visited only URLs with /releases/v/.
\* Every step of run() leaves each other URL of the frontier and of the
\* urls table unvisited and not fetched in this run, so it is so when
\* run() has ended; a step that fetches a URL of the frontier fetches an
\* unvisited one with /releases/v/; the seed is fetched only by the first
\* step of run() on an empty frontier, and is never in the frontier nor in
\* the table.
C21_OnlyDetailUrlsAreVisited ==
    [][/\ \A u \in OtherUrls(all_links', db_urls') :
             /\ u \in DOMAIN all_links' => ~all_links'[u]
             /\ [url |-> u, visited |-> TRUE] \notin db_urls'
             /\ u \in FetchUrls => fetches'[u] = 0
             /\ u # base_url
             /\ u \notin batch' /\ u # link'
       /\ \A u \in FetchUrls : fetches'[u] > fetches[u] =>
             IF u = base_url
             THEN pc = "start" /\ DOMAIN all_links = {}
             ELSE /\ pc = "visit" /\ u \in DOMAIN all_links
                  /\ ~all_links[u] /\ IsDetail(u)
      ]_vars

\* run() has ended after the seed was fetched once: the frontier holds a
\* visited URL with /releases/v/ and a URL without it, unvisited and not
\* fetched.
C21_Witness ==
    /\ pc = "done"
    /\ fetches[base_url] = 1
    /\ \E u, v \in DOMAIN all_links :
          /\ IsDetail(u) /\ all_links[u] /\ fetches[u] = 1
          /\ ~IsDetail(v) /\ ~all_links[v] /\ fetches[v] = 0
          /\ [url |-> v, visited |-> FALSE] \in db_urls

(***************************************************************************)
(* run() a second time: the crawl as in Spec, with one new process started *)
(* on the store the first run left; input keeps how the first run ended    *)
(* and the tables the second one was started on.                           *)
(***************************************************************************)
Rerun ==
    /\ input = <<>>
    /\ Reload
    /\ input' = [ended |-> pc, urls |-> db_urls, content |-> db_content]
    /\ UNCHANGED output

RerunNext ==
    \/ Bootstrap
    \/ Loaded
    \/ LoopBatch
    \/ LoopDone
    \/ Visit
    \/ Parse
    \/ MarkDb
    \/ MarkMem
    \/ Interrupt
    \/ Rerun

RerunSpec ==
    Init /\ [][RerunNext]_vars

\* The second run, after an interruption, fetches no URL the store holds as
\* visited, and none the store held as visited when the run started.
RerunIncremental ==
    /\ input'.ended = "interrupted" =>
          \A u \in FetchUrls :
              fetches'[u] > 0 => [url |-> u, visited |-> TRUE] \notin input'.urls
    /\ \A u \in FetchUrls : fetches'[u] > fetches[u] => ~VisitedInDb(u)

\* The second run has fetched nothing and the tables are those it started on.
RerunIdle ==
    /\ \A u \in FetchUrls : fetches[u] = 0
    /\ db_urls = input.urls
    /\ db_content = input.content

\* C11 as stated: a run on the store left by a run that terminated fetches
\* no URL and leaves both tables unchanged; a run after an interruption
\* fetches only URLs the store does not hold as visited, and none that was
\* visited before the interruption.
C11_RerunFetchesNothing ==
    [][input' # <<>> =>
          /\ (input'.ended = "done" => RerunIdle')
          /\ RerunIncremental
      ]_vars

\* C11 amended: the same, for a terminated run that left a store with at
\* least one URL; on an empty store the second run fetches the seed again.
C11_RerunOnStoredUrlsFetchesNothing ==
    [][input' # <<>> =>
          /\ (input'.ended = "done" /\ input'.urls # {} => RerunIdle')
          /\ RerunIncremental
      ]_vars

\* The second run came to its end after an interruption of the first that
\* left a visited and an unvisited detail URL, and it fetched a page.
C11_Witness ==
    /\ input # <<>>
    /\ input.ended = "interrupted"
    /\ \E r \in input.urls : r.visited
    /\ \E u \in FetchUrls : fetches[u] > 0
    /\ pc = "done"

(***************************************************************************)
(* The crawl and the live search on one store: the steps of run() as in    *)
(* Spec, and between any two of them a pass of Search.search's loop that   *)
(* finds no stored record.                                                 *)
(***************************************************************************)
\* Line 406: the detail URLs of the suggest entries that have an id.
SuggestUrls ==
    {base_url \o DetailPart \o result : result \in SuggestIds \ {NoId}}

\* Lines 415-419: what parse_data gives for a detail URL on the texts the
\* detail request can return.
Extracted ==
    [new_url \in SuggestUrls |->
        {parse_data(new_url, text) : text \in DetailResults \ {[kind |-> "fail"]}}]

\* Lines 406-420 for one suggest entry with an id: the store returns no
\* record (there is none, or the lookup failed), the detail page is fetched
\* and extracted, and parse_data saves what it extracted.
Resolution ==
    /\ \E new_url \in SuggestUrls :
          /\ \E io_ok \in BOOLEAN :
                return_data_for_url(db_content, new_url, io_ok) = NoneData
          /\ \E parsed \in Extracted[new_url] :
                db_content' = IF parsed.kind = "data"
                              THEN save_content(db_content, parsed.data)
                              ELSE db_content
    /\ UNCHANGED <<db_urls, crawl_vars, search_vars, fun_vars>>

SiteNext ==
    \/ Crawl
    \/ Resolution

SiteSpec ==
    Init /\ [][SiteNext]_vars

\* C12: every url of the content table is a url of the urls table.
C12_ContentUrlsAreKnown ==
    \A r \in db_content : UrlRows(db_urls, r.url) # {}

(***************************************************************************)
(* The filter of get_all_links: one call of a new Scraper on an empty      *)
(* store, on a page of any hrefs; input is the page and only_releases,     *)
(* output the returned list.                                               *)
(***************************************************************************)
FilterInit ==
    /\ db_urls = {}
    /\ db_content = {}
    /\ all_links = get_all_urls({})
    /\ pc = "start"
    /\ batch = {}
    /\ link = None
    /\ content = NoHtml
    /\ fetches = [u \in FetchUrls |-> 0]
    /\ fetch_failed = FALSE
    /\ spc = "idle"
    /\ pending = <<>>
    /\ datas = <<>>
    /\ response = <<>>
    /\ input \in {[page |-> Page(links, NoDoc), only_releases |-> o, done |-> FALSE] :
                      links \in SeqsUpTo(Hrefs, MaxHrefs), o \in BOOLEAN}
    /\ output = <<>>

FilterSpec ==
    FilterInit /\ [][LinkCall]_vars

\* The hyperlink has a target with an allow-list fragment and no deny-list
\* fragment, whose absolute form contains the site's domain.
ToBeKept(href, onlyReleases) ==
    LET Has(part) == href # None /\ Contains(href, <<part>>)
        absolute == IF href # None /\ href # <<>> /\ Head(href) = "http"
                    THEN href
                    ELSE <<"http", "s://www.", "bigfinish.com">> \o href
    IN  /\ Has("/releases/") \/ Has("/ranges/") \/ (~onlyReleases /\ Has("/hubs/"))
        /\ ~(Has("facebook.com") \/ Has("twitter") \/ Has("youtube")
                \/ Has("/basket/") \/ Has("/pages/v/"))
        /\ Contains(absolute, <<"bigfinish.com">>)

\* C13: the call returns the absolute form of exactly the hyperlinks of the
\* page that are to be kept, and of the page with /releases/v/123,
\* https://facebook.com/x and /basket/ only <origin>/releases/v/123.
C13_FilterKeepsIff ==
    input.done =>
        LET links == input.page.links
            Kept(h) == ToBeKept(h, input.only_releases)
            kept == SelectSeq(links, Kept)
        IN  /\ Len(output) = Len(kept)
            /\ \A k \in 1..Len(kept) : output[k] = FullUrl(kept[k])
            /\ DOMAIN all_links = {output[k] : k \in 1..Len(output)}
            /\ links = <<HDetail123, HFacebookX, HBasketOnly>> =>
                  output = <<base_url \o HDetail123>>

\* The call was made on the page with /releases/v/123,
\* https://facebook.com/x and /basket/.
C13_Witness ==
    /\ input.done
    /\ input.page.links = <<HDetail123, HFacebookX, HBasketOnly>>
    /\ output = <<base_url \o HDetail123>>

\* C20: a pass of the loop whose lookup finds the record returns it
\* without a detail request, and the lookup finds every stored record; a
\* pass whose lookup finds none and whose detail request returns the page
\* stores the record it extracted; either way the pass adds the record of
\* its id to the result, after those of the ids before it.
C20_StoreFirstThenFetchOnce ==
    [][Len(output') = Len(output) + 1 =>
          LET pass == output'[Len(output')]
              stored == ContentRows(db_content, pass.url)
          IN  /\ pass.lookup = "hit" =>
                    pass.fetch = "none" /\ db_content' = db_content
                        /\ \E r \in stored : datas' = Append(datas, r)
              /\ pass.lookup = "miss" => stored = {}
              /\ pass.lookup = "miss" /\ pass.fetch = "ok" =>
                    /\ spc' = "resolving"
                    /\ \E r \in ContentRows(db_content', pass.url) :
                          datas' = Append(datas, r)
      ]_vars

\* The same for the passes that end: the detail request returned a page
\* from which parse_data extracted a record without raising.
LiveResolvesThroughStore ==
    [][Len(output') = Len(output) + 1 =>
          LET pass == output'[Len(output')]
              stored == ContentRows(db_content, pass.url)
          IN  /\ pass.lookup = "hit" =>
                    pass.fetch = "none" /\ db_content' = db_content
                        /\ \E r \in stored : datas' = Append(datas, r)
              /\ pass.lookup = "miss" => stored = {}
              /\ /\ pass.lookup = "miss" /\ pass.fetch = "ok"
                 /\ Len(datas') = Len(datas) + 1 /\ datas'[Len(datas')] # NoneData
                 => /\ spc' = "resolving"
                    /\ \E r \in ContentRows(db_content', pass.url) :
                          datas' = Append(datas, r)
      ]_vars

(***************************************************************************)
(* The order of the two rankings.                                          *)
(***************************************************************************)
\* out lists every element of cands once, by descending score, those of
\* equal score in the order they have in cands.
StableDescending(out, cands, Score(_)) ==
    /\ Len(out) = Len(cands)
    /\ \E f \in [1..Len(cands) -> 1..Len(cands)] :
          /\ \A k \in 1..Len(cands) : out[k] = cands[f[k]]
          /\ \A k, l \in 1..Len(cands) :
                k < l => \/ Score(cands[f[k]]) > Score(cands[f[l]])
                         \/ Score(cands[f[k]]) = Score(cands[f[l]]) /\ f[k] < f[l]

\* The handler ranked what Search.search returned.
RankStep ==
    spc = "resolving" /\ pending = <<>> /\ spc' # spc

\* C14: the live ranking returns every candidate Search.search resolved, by
\* descending score, candidates of equal score in the order of datas.
C14_LiveRankingReturnsAllStable ==
    [][RankStep =>
          /\ spc' = "returned"
          /\ StableDescending(response', datas, LAMBDA c : ratio(c.title))
      ]_vars

\* The same for the requests whose candidates all have a title, the only
\* ones the handler ranks to the end.
LiveRankingOfTitledStable ==
    [][RankStep /\ spc' = "returned" =>
          StableDescending(response', datas, LAMBDA c : ratio(c.title))
      ]_vars

\* The local ranking returns rows of equal score in the order of the rows.
LocalTiesKeepOrder ==
    input.done =>
        \A k, l \in 1..Len(output) :
            k < l /\ output[k][1] = output[l][1] =>
                output[k][2].rowid < output[l][2].rowid

(***************************************************************************)
(* parse_release_date alone: one call on a text "Released <Month> <Year>"  *)
(* with blanks around and between, on a build whose strftime pads the year *)
(* or not; input is the text and its parts, output the returned value.     *)
(***************************************************************************)
DateWords ==
    {"Released", "released", "RELEASED"}

DateMonths ==
    {"March", "MARCH", "may", "December", "Marchy"}

DateYears ==
    {<<"2", "0", "2", "0">>, <<"9", "9", "9", "9">>, <<"1", "0", "0", "0">>,
     <<"0", "9", "9", "9">>, <<"0", "0", "0", "1">>, <<"0", "0", "0", "0">>,
     <<"2", "0", "2">>, <<>>}

DateBlanks ==
    {<<>>, <<" ">>, <<"\n">>}

DateGaps ==
    {<<" ">>, <<" ", " ">>}

DateInputs ==
    {[text |-> a \o <<w>> \o g \o <<m>> \o g \o y \o b, month |-> m, year |-> y] :
        a \in DateBlanks, w \in DateWords, g \in DateGaps, m \in DateMonths,
        y \in DateYears, b \in DateBlanks}
    \cup {[text |-> t, month |-> "", year |-> <<>>] : t \in {<<>>, None}}

DateInit ==
    /\ db_urls = {}
    /\ db_content = {}
    /\ all_links = get_all_urls({})
    /\ pc = "start"
    /\ batch = {}
    /\ link = None
    /\ content = NoHtml
    /\ fetches = [u \in FetchUrls |-> 0]
    /\ fetch_failed = FALSE
    /\ spc = "idle"
    /\ pending = <<>>
    /\ datas = <<>>
    /\ response = <<>>
    /\ input \in {[arg |-> i, pads |-> p, done |-> FALSE] :
                      i \in DateInputs, p \in BOOLEAN}
    /\ output = None

\* DateParser.parse_release_date(date_text)
DateCall ==
    /\ ~input.done
    /\ input' = [input EXCEPT !.done = TRUE]
    /\ output' = parse_release_date(input.arg.text, input.pads)
    /\ UNCHANGED <<db_urls, db_content, crawl_vars, search_vars>>

DateSpec ==
    DateInit /\ [][DateCall]_vars

\* The number of a month name, 0 for any other word.
MonthNumber(word) ==
    CASE word \in {"March", "MARCH"} -> 3
      [] word = "may" -> 5
      [] word = "December" -> 12
      [] OTHER -> 0

\* C15: for a month name and a year of four digits other than 0000 the call
\* returns YYYY-MM-01 with the four digits of the text, and absent for any
\* other month word, for less than four year digits, for 0000 and for an
\* empty text.
C15_ReleaseDateIsYearMonth01 ==
    input.done =>
        LET m == MonthNumber(input.arg.month)
            y == input.arg.year
        IN  IF m # 0 /\ Len(y) = 4 /\ y # <<"0", "0", "0", "0">>
            THEN output = y \o <<"-", DigitTok(m \div 10), DigitTok(m % 10), "-", "0", "1">>
            ELSE output = None

(***************************************************************************)
(* parse_data on production tabs: one call on a page whose tab6 has a      *)
(* digital ISBN line, a physical one, both or none; input is the page and  *)
(* the two candidates (None for a line that is not there).                 *)
(***************************************************************************)
Isbn4 == <<"9", "7", "8", "-", "1", "-", "7", "8", "-", "1">>

IsbnCands ==
    {Isbn4,
     <<"9", "7", "9", "-", "1", "2", "3", "4", "5", "-", "1", "-", "0">>,  \* another valid one
     Isbn4 \o <<"X">>,                                  \* extra character
     Isbn4 \o <<"-", "4">>,                             \* a fifth group
     <<"N/A">>,
     <<"9", "7", "-", "1", "-", "7", "8", "-", "1">>,    \* two digits in front
     <<"9", "7", "8", "-", "1", "-", "7", "8">>,         \* three groups
     <<>>}

IsbnLine(marker, cand, tail) ==
    IF cand = None THEN <<>> ELSE marker \o cand \o tail

IsbnInputs ==
    {[page |-> Page(<<>>, [NoDoc EXCEPT !.tab6 =
                              <<"Produced", "\n">>
                                  \o IsbnLine(DigitalMarker, d, t)
                                  \o IsbnLine(PhysicalMarker, ph, t)]),
      digital |-> d, physical |-> ph, done |-> FALSE] :
        d \in IsbnCands \cup {None}, ph \in IsbnCands \cup {None},
        t \in {<<" ", "more", "\n">>, <<"\n", "more", " ">>}}

IsbnInit ==
    /\ db_urls = {}
    /\ db_content = {}
    /\ all_links = get_all_urls({})
    /\ pc = "start"
    /\ batch = {}
    /\ link = None
    /\ content = NoHtml
    /\ fetches = [u \in FetchUrls |-> 0]
    /\ fetch_failed = FALSE
    /\ spc = "idle"
    /\ pending = <<>>
    /\ datas = <<>>
    /\ response = <<>>
    /\ input \in IsbnInputs
    /\ output = [kind |-> "pending"]

IsbnSpec ==
    IsbnInit /\ [][ParseCall]_vars

\* The whole of s is 3 digits - 1..5 digits - 1..7 digits - 1 digit.
IsbnWhole(s) ==
    \E b \in 1..5, c \in 1..7 :
        /\ Len(s) = 7 + b + c
        /\ \A i \in 1..Len(s) :
              IF i \in {4, 5 + b, 6 + b + c} THEN s[i] = "-" ELSE s[i] \in Digits

\* C16: the isbn of the record is the candidate of the digital line, or of
\* the physical line when there is no digital one, if the whole candidate
\* has the pattern, and absent otherwise.
C16_IsbnMatchesAsAWhole ==
    input.done /\ output.kind = "data" =>
        LET cand == IF input.digital # None THEN input.digital ELSE input.physical
        IN  output.data.isbn = IF cand # None /\ IsbnWhole(cand) THEN cand ELSE None

\* The same with the pattern matched at the front of the candidate only.
IsbnMatchesAtFront ==
    input.done /\ output.kind = "data" =>
        LET cand == IF input.digital # None THEN input.digital ELSE input.physical
        IN  output.data.isbn =
                IF cand # None /\ \E n \in 1..Len(cand) : IsbnWhole(SubSeq(cand, 1, n))
                THEN cand ELSE None

(***************************************************************************)
(* The title and series_tag of parse_data (lines 267-276): the step alone  *)
(* on a raw title made of up to two prefixes, each followed or not by a    *)
(* dot and by blanks, and a rest; a title is a sequence of characters.     *)
(* input is the text of the h3, output the record after the step.          *)
(***************************************************************************)
TheActualTitle ==
    <<"T", "h", "e", " ", "A", "c", "t", "u", "a", "l", " ", "T", "i", "t", "l", "e">>

TitlePrefixes ==
    {<<>>, <<"1">>, <<"1", ".", "2">>, <<"1", ".", "2", ".", "3">>, <<"#", "1">>,
     <<"1", "2", "3", "4", "5", "6">>, <<"1", "2", "3", "4", "5", "6", "7">>}

TitleRests ==
    {<<"T">>, TheActualTitle, <<"3", ".", " ", "T">>, <<"T", "\n", "U">>, <<>>}

TitleTexts ==
    {p1 \o d1 \o g1 \o p2 \o d2 \o g2 \o r :
        p1 \in TitlePrefixes, p2 \in TitlePrefixes,
        d1 \in {<<>>, <<".">>}, d2 \in {<<>>, <<".">>},
        g1 \in {<<>>, <<" ">>, <<" ", " ">>}, g2 \in {<<>>, <<" ">>},
        r \in TitleRests}

TitleInit ==
    /\ db_urls = {}
    /\ db_content = {}
    /\ all_links = get_all_urls({})
    /\ pc = "start"
    /\ batch = {}
    /\ link = None
    /\ content = NoHtml
    /\ fetches = [u \in FetchUrls |-> 0]
    /\ fetch_failed = FALSE
    /\ spc = "idle"
    /\ pending = <<>>
    /\ datas = <<>>
    /\ response = <<>>
    /\ input \in {[h3 |-> t, done |-> FALSE] : t \in TitleTexts}
    /\ output = NoneData

\* Lines 267-276 on a description block whose h3 has the text input.h3.
TitleCall ==
    /\ ~input.done
    /\ input' = [input EXCEPT !.done = TRUE]
    /\ output' = TitleStep([NoDoc EXCEPT !.desc = TRUE, !.h3 = input.h3],
                           EmptyData(ParseUrl))
    /\ UNCHANGED <<db_urls, db_content, crawl_vars, search_vars>>

TitleSpec ==
    TitleInit /\ [][TitleCall]_vars

Alnum ==
    Digits \cup {"T", "h", "e", "A", "c", "t", "u", "a", "l", "i", "U"}

\* s is n blanks.
Blanks(s, n) ==
    Len(s) = n /\ \A i \in 1..n : s[i] \in {" ", "\n"}

\* text is a prefix of k characters in Chars, a dot, blanks, and rest, which
\* begins with no blank.
PrefixedBy(text, k, rest, Chars) ==
    /\ k \in 1..6
    /\ k + 2 + Len(rest) <= Len(text)
    /\ \A i \in 1..k : text[i] \in Chars
    /\ text[k + 1] = "."
    /\ Blanks(SubSeq(text, k + 2, Len(text) - Len(rest)), Len(text) - Len(rest) - k - 1)
    /\ rest = SubSeq(text, Len(text) - Len(rest) + 1, Len(text))
    /\ rest # <<>> /\ rest[1] \notin {" ", "\n"}

\* tag and title are what one or two prefixes of characters in Chars, taken
\* from the front of raw, leave: the prefixes joined by a dot, and the rest.
TagOfPrefixes(raw, tag, title, Chars) ==
    \E k1 \in 1..6, n1 \in 1..Len(raw) :
        LET rest1 == SubSeq(raw, Len(raw) - n1 + 1, Len(raw))
        IN  /\ PrefixedBy(raw, k1, rest1, Chars)
            /\ \/ tag = SubSeq(raw, 1, k1) /\ title = rest1
               \/ \E k2 \in 1..6 :
                     /\ PrefixedBy(rest1, k2, title, Chars)
                     /\ tag = SubSeq(raw, 1, k1) \o <<".">> \o SubSeq(rest1, 1, k2)

\* raw begins with up to six characters that are no blanks, a dot and a
\* blank.
HasDotPrefix(raw) ==
    \E k \in 1..6 :
        /\ k + 2 <= Len(raw)
        /\ \A i \in 1..k : raw[i] \notin {" ", "\n"}
        /\ raw[k + 1] = "." /\ raw[k + 2] \in {" ", "\n"}

\* What the claim says of the step with prefixes of characters in Chars.
TitleTagClaim(Chars) ==
    input.done =>
        LET raw == Strip(input.h3)
            tag == output.series_tag
            title == output.title
        IN  /\ \/ tag = None /\ title = raw
               \/ tag # None /\ TagOfPrefixes(raw, tag, title, Chars)
            /\ raw = <<"1", ".", "2", ".", " ">> \o TheActualTitle =>
                  tag = <<"1", ".", "2">> /\ title = TheActualTitle
            /\ ~HasDotPrefix(raw) => tag = None /\ title = raw

\* C17 as stated: series_tag is absent or one or two short alphanumeric
\* prefixes from the front of the title joined by a dot, and the title is
\* the remainder; "1.2. The Actual Title" gives "1.2" and "The Actual
\* Title"; a title without the dot-prefix pattern is unchanged.
C17_TagOfAlphanumericPrefixes ==
    /\ TitleTagClaim(Alnum \cup {"."})
    /\ input.done /\ output.series_tag # None =>
          LET tag == output.series_tag
          IN  /\ Cardinality({i \in 1..Len(tag) : tag[i] = "."}) <= 1
              /\ tag[1] # "." /\ tag[Len(tag)] # "."

\* C17 amended: the same with prefixes of any one to six characters that
\* are no blanks.
C17_TagOfNonBlankPrefixes ==
    TitleTagClaim(Alnum \cup {".", "#"})

\* The step took two prefixes from a title with three and left the third
\* in the title.
C17_Witness ==
    /\ input.done
    /\ input.h3 = <<"1", ".", " ", "1", ".", " ", "3", ".", " ", "T">>
    /\ output.series_tag = <<"1", ".", "1">>
    /\ output.title = <<"3", ".", " ", "T">>

====
